---- MODULE Spec2Model ----
(***************************************************************************)
(* A model of nbp/publication.py: the URL/path builder (build_url), the    *)
(* backward publication sequencer (gen_urls), the publication-number       *)
(* calculator (calculate_number), the fetch step (download, fetch_data),   *)
(* the resolver (get_table) and the multi-table query                      *)
(* (download_exchange_rate).                                               *)
(*                                                                         *)
(* Strings are sequences of tokens (one-character strings, and the fixed   *)
(* URL prefix as one token).  Dates are records [year, month, day] with    *)
(* the arithmetic of datetime.date.                                        *)
(***************************************************************************)
EXTENDS Integers, Sequences, FiniteSets, TLC

\* Python's None: for objects, and for optional strings
None == [none |-> TRUE]
NoneStr == <<"None">>

\* ------------------------------------------------------------------------
\* datetime.date
\* ------------------------------------------------------------------------
Date(y, m, d) == [year |-> y, month |-> m, day |-> d]

IsLeap(y) == (y % 4 = 0 /\ y % 100 # 0) \/ y % 400 = 0

DaysInMonth(y, m) ==
    IF m = 2 THEN (IF IsLeap(y) THEN 29 ELSE 28)
    ELSE IF m \in {4, 6, 9, 11} THEN 30 ELSE 31

RECURSIVE DaysBeforeMonth(_, _)
DaysBeforeMonth(y, m) ==
    IF m = 1 THEN 0 ELSE DaysBeforeMonth(y, m - 1) + DaysInMonth(y, m - 1)

DaysBeforeYear(y) ==
    (y - 1) * 365 + ((y - 1) \div 4) - ((y - 1) \div 100) + ((y - 1) \div 400)

\* date.toordinal(): 1 for 0001-01-01
ToOrdinal(d) == DaysBeforeYear(d.year) + DaysBeforeMonth(d.year, d.month) + d.day

\* date.weekday(): Monday is 0, Sunday is 6
Weekday(d) == (ToOrdinal(d) + 6) % 7

\* date.timetuple().tm_yday
DayOfYear(d) == DaysBeforeMonth(d.year, d.month) + d.day

\* d - timedelta(days=1)
PrevDay(d) ==
    IF d.day > 1 THEN Date(d.year, d.month, d.day - 1)
    ELSE IF d.month > 1
         THEN Date(d.year, d.month - 1, DaysInMonth(d.year, d.month - 1))
         ELSE Date(d.year - 1, 12, 31)

\* d + timedelta(days=1)
NextDay(d) ==
    IF d.day < DaysInMonth(d.year, d.month) THEN Date(d.year, d.month, d.day + 1)
    ELSE IF d.month < 12 THEN Date(d.year, d.month + 1, 1)
         ELSE Date(d.year + 1, 1, 1)

\* a > b on dates
DateGT(a, b) ==
    \/ a.year > b.year
    \/ a.year = b.year /\ a.month > b.month
    \/ a.year = b.year /\ a.month = b.month /\ a.day > b.day

\* ------------------------------------------------------------------------
\* dateutils: the two day counters (section 4.1 of the specification)
\* ------------------------------------------------------------------------
\* how many of the first n days of a year whose January 1 has weekday `first`
\* fall on a weekday in `days`: the whole weeks, then the days left over
CountDays(first, n, days) ==
    (n \div 7) * Cardinality(days)
        + Cardinality({k \in 0..((n % 7) - 1) : (first + k) % 7 \in days})

\* Rule A: days from January 1 through d inclusive, Saturdays and Sundays excluded
count_working_days(d) ==
    CountDays(Weekday(Date(d.year, 1, 1)), DayOfYear(d), {0, 1, 2, 3, 4})

\* Rule B: Wednesdays from January 1 through d inclusive
count_wednesdays(d) ==
    CountDays(Weekday(Date(d.year, 1, 1)), DayOfYear(d), {2})

\* ------------------------------------------------------------------------
\* Table types and calculate_number
\* ------------------------------------------------------------------------
A == "a"
B == "b"
TABLE_TYPES == <<A, B>>

\* x in TABLE_TYPES
InTableTypes(x) == \E i \in 1..Len(TABLE_TYPES) : TABLE_TYPES[i] = x

\* str.lower() on the table types the model passes in
Lower(t) == IF t = "A" THEN "a" ELSE IF t = "B" THEN "b" ELSE t

TABLE_TYPES_DAY_COUNTER(t, d) ==
    IF t = A THEN count_working_days(d) ELSE count_wednesdays(d)

\* a check that lowers the table type before it looks it up
CalculateRaisesAfterLower(table_type) == ~InTableTypes(Lower(table_type))

\* the assert of calculate_number fails
CalculateRaises(table_type) == ~InTableTypes(table_type)

calculate_number(d, table_type) == TABLE_TYPES_DAY_COUNTER(Lower(table_type), d)

\* ------------------------------------------------------------------------
\* Strings
\* ------------------------------------------------------------------------
DigitChar == <<"0", "1", "2", "3", "4", "5", "6", "7", "8", "9">>

RECURSIVE Digits(_)
Digits(n) ==
    IF n < 10 THEN <<DigitChar[n + 1]>>
    ELSE Digits(n \div 10) \o <<DigitChar[(n % 10) + 1]>>

\* str(n) for an integer
Str(n) == IF n < 0 THEN <<"-">> \o Digits(0 - n) ELSE Digits(n)

\* a padding that keeps only the last `width` characters
RJustTruncating(s, width, fill) ==
    IF Len(s) >= width THEN SubSeq(s, Len(s) - width + 1, Len(s))
    ELSE [i \in 1..(width - Len(s)) |-> fill] \o s

\* s.rjust(width, fill)
RJust(s, width, fill) ==
    IF Len(s) >= width THEN s
    ELSE [i \in 1..(width - Len(s)) |-> fill] \o s

\* s[2:]
DropTwo(s) == SubSeq(s, 3, Len(s))

\* a join that never puts a separator in
PathJoinNoSeparator(a, b) == a \o b

\* os.path.join(a, b) for a relative b
PathJoin(a, b) ==
    IF Len(a) = 0 \/ a[Len(a)] = "/" THEN a \o b ELSE a \o <<"/">> \o b

\* ------------------------------------------------------------------------
\* build_url
\* ------------------------------------------------------------------------
NBP_CURRENCY_TABLE_URL_PREFIX == <<"http://rss.nbp.pl/kursy/xml2/">>

\* '%s/%s/%s%s%s.xml' % (year, table_type, short_year, table_type, pub_number)
NBP_CURRENCY_TABLE_URL_PATTERN(year, table_type, short_year, pub_number) ==
    Str(year) \o <<"/", table_type, "/">> \o short_year \o <<table_type>>
        \o pub_number \o <<".", "x", "m", "l">>

PadWidth == 3

build_url(year, pub_number, table_type, cache_dir) ==
    LET short_year == DropTwo(Str(year))
        number     == RJust(Str(pub_number), PadWidth, "0")
        path       == NBP_CURRENCY_TABLE_URL_PATTERN(year, table_type, short_year, number)
    IN  [url |-> NBP_CURRENCY_TABLE_URL_PREFIX \o path,
         cache_file_path |-> IF cache_dir # NoneStr /\ Len(cache_dir) > 0
                             THEN PathJoin(cache_dir, path)
                             ELSE NoneStr]

\* ------------------------------------------------------------------------
\* gen_urls: the generator object is the record
\*   [year, pub_number, table_type, gen_number, cache_dir]
\* ------------------------------------------------------------------------
DefaultGenNumber == 15

\* the generator's frame when gen_urls(...) is called
GenStart(year, pub_number, table_type, gen_number, cache_dir) ==
    [year |-> year, pub_number |-> pub_number, table_type |-> table_type,
     gen_number |-> gen_number, cache_dir |-> cache_dir]

\* a sequencer whose loop test is gen_number >= 0
GenHasNextOffByOne(g) == g.gen_number >= 0

\* while gen_number > 0
GenHasNext(g) == g.gen_number > 0

\* a rollover that takes January 1 of the current year, not the day before it
GenRolloverSameYear(g) ==
    IF g.pub_number = 0
    THEN LET first_day == Date(g.year, 1, 1)
         IN  [g EXCEPT !.year = first_day.year,
                       !.pub_number = calculate_number(first_day, g.table_type)]
    ELSE g

\* a sequencer with no year rollover
GenRolloverNever(g) == g

\* if pub_number == 0: move to December 31 of the previous year
GenRollover(g) ==
    IF g.pub_number = 0
    THEN LET previous_year_date == PrevDay(Date(g.year, 1, 1))
         IN  [g EXCEPT !.year = previous_year_date.year,
                       !.pub_number = calculate_number(previous_year_date, g.table_type)]
    ELSE g

\* the (url, cache_file_path) of the yield
GenYield(g) ==
    LET r == GenRollover(g)
    IN  build_url(r.year, r.pub_number, r.table_type, r.cache_dir)

\* a sequencer that forgets pub_number -= 1
GenAdvanceNoDecrement(g) ==
    LET r == GenRollover(g)
    IN  [r EXCEPT !.gen_number = @ - 1]

\* the frame after the yield: pub_number -= 1; gen_number -= 1
GenAdvance(g) ==
    LET r == GenRollover(g)
    IN  [r EXCEPT !.pub_number = @ - 1, !.gen_number = @ - 1]

\* list(gen): every location the generator yields from frame g on, in order
RECURSIVE GenLocations(_)
GenLocations(g) ==
    IF GenHasNext(g) THEN <<GenYield(g)>> \o GenLocations(GenAdvance(g)) ELSE <<>>

\* ------------------------------------------------------------------------
\* The feed: what one publication file holds.  A body is a well-formed
\* table with its number, publication date and currency codes, or malformed.
\* ------------------------------------------------------------------------
TableBody(no, publication_date, codes) ==
    [doc |-> "table", no |-> no, publication_date |-> publication_date, codes |-> codes]

MalformedBody == [doc |-> "malformed"]

\* ------------------------------------------------------------------------
\* download: `net` is what urllib2.urlopen(url) does for this request:
\*   [kind |-> "200", body]  a response with status 200
\*   [kind |-> "non200"]     a response whose getcode() is not 200
\*   [kind |-> "URLError"]   urlopen raises URLError (HTTPError included)
\*   [kind |-> "OtherError"] urlopen raises an error that is no URLError
\* The result is [raised, value]: value is the response handle or None.
\* ------------------------------------------------------------------------
Returned(v) == [raised |-> FALSE, value |-> v]
Raised(e) == [raised |-> TRUE, value |-> e]

NetHandle(url, body) == [src |-> "net", name |-> url, body |-> body]

download(url, net) ==
    IF net.kind = "200" THEN Returned(NetHandle(url, net.body))
    ELSE IF net.kind \in {"non200", "URLError"} THEN Returned(None)
    ELSE Raised("OtherError")

\* ------------------------------------------------------------------------
\* caching: the cache store is [dirs, files]; dirs is the set of existing
\* directories, files maps each existing file path to its body.
\* ------------------------------------------------------------------------
RECURSIVE LastSlash(_, _)
LastSlash(p, i) == IF i = 0 \/ p[i] = "/" THEN i ELSE LastSlash(p, i - 1)

\* os.path.dirname
Dirname(p) == SubSeq(p, 1, LastSlash(p, Len(p)) - 1)

cache_dir_exists(store, path) == Dirname(path) \in store.dirs

cache_create_dir(store, path) == [store EXCEPT !.dirs = @ \cup {Dirname(path)}]

cache_file_exists(store, path) == path \in DOMAIN store.files

cache_save(store, path, data) ==
    [store EXCEPT !.files = [q \in (DOMAIN @) \cup {path} |->
                                IF q = path THEN data.body ELSE @[q]]]

cache_open(store, path) == [src |-> "cache", name |-> path, body |-> store.files[path]]

\* ------------------------------------------------------------------------
\* fetch_data: `io` is "ok" or "save_fails" (cache.save raises an I/O error).
\* The result is [raised, value, store, downloaded]: the handle or None,
\* the cache store afterwards, and whether download(url) was called.
\* ------------------------------------------------------------------------
Truthy(s) == s # NoneStr /\ Len(s) > 0

FetchResult(r, store, downloaded) ==
    [raised |-> r.raised, value |-> r.value, store |-> store, downloaded |-> downloaded]

\* a fetch step that retrieves from the network before it looks at the cache
fetch_dataDownloadFirst(url, cache_file_path, store, net, io) ==
    IF Truthy(cache_file_path)
    THEN LET s1 == IF ~cache_dir_exists(store, cache_file_path)
                   THEN cache_create_dir(store, cache_file_path)
                   ELSE store
             data == download(url, net)
         IN  IF data.raised
             THEN FetchResult(data, s1, TRUE)
             ELSE IF data.value = None
             THEN (IF cache_file_exists(s1, cache_file_path)
                   THEN FetchResult(Returned(cache_open(s1, cache_file_path)), s1, TRUE)
                   ELSE FetchResult(Returned(None), s1, TRUE))
             ELSE IF io = "save_fails"
             THEN FetchResult(Raised("IOError"), s1, TRUE)
             ELSE LET s2 == cache_save(s1, cache_file_path, data.value)
                  IN  FetchResult(Returned(cache_open(s2, cache_file_path)), s2, TRUE)
    ELSE FetchResult(download(url, net), store, TRUE)

\* a fetch step that writes the cache file whether or not the download gave content
fetch_dataSaveOnFailure(url, cache_file_path, store, net, io) ==
    IF Truthy(cache_file_path)
    THEN LET s1 == IF ~cache_dir_exists(store, cache_file_path)
                   THEN cache_create_dir(store, cache_file_path)
                   ELSE store
             missing == ~cache_file_exists(s1, cache_file_path)
             data == download(url, net)
         IN  IF ~missing
             THEN FetchResult(Returned(cache_open(s1, cache_file_path)), s1, FALSE)
             ELSE IF data.raised
             THEN FetchResult(data, s1, TRUE)
             ELSE IF data.value = None
             THEN FetchResult(Returned(None),
                              cache_save(s1, cache_file_path, [body |-> MalformedBody]), TRUE)
             ELSE IF io = "save_fails"
             THEN FetchResult(Raised("IOError"), s1, TRUE)
             ELSE LET s2 == cache_save(s1, cache_file_path, data.value)
                  IN  FetchResult(Returned(cache_open(s2, cache_file_path)), s2, TRUE)
    ELSE FetchResult(download(url, net), store, TRUE)

fetch_data(url, cache_file_path, store, net, io) ==
    IF Truthy(cache_file_path)
    THEN LET s1 == IF ~cache_dir_exists(store, cache_file_path)
                   THEN cache_create_dir(store, cache_file_path)
                   ELSE store
             missing == ~cache_file_exists(s1, cache_file_path)
             data == download(url, net)
         IN  IF ~missing
             THEN FetchResult(Returned(cache_open(s1, cache_file_path)), s1, FALSE)
             ELSE IF data.raised
             THEN FetchResult(data, s1, TRUE)
             ELSE IF data.value = None
             THEN FetchResult(Returned(None), s1, TRUE)
             ELSE IF io = "save_fails"
             THEN FetchResult(Raised("IOError"), s1, TRUE)
             ELSE LET s2 == cache_save(s1, cache_file_path, data.value)
                  IN  FetchResult(Returned(cache_open(s2, cache_file_path)), s2, TRUE)
    ELSE FetchResult(download(url, net), store, TRUE)

\* ------------------------------------------------------------------------
\* parse: a Table, or an error on a malformed document
\* ------------------------------------------------------------------------
Table(no, publication_date, url, codes) ==
    [no |-> no, publication_date |-> publication_date, url |-> url, codes |-> codes]

parse(file_, url) ==
    IF file_.body.doc = "table"
    THEN Returned(Table(file_.body.no, file_.body.publication_date, url, file_.body.codes))
    ELSE Raised("ParseError")

\* an acceptance test that lets every parsed table through
AcceptedAlways(table, date) == TRUE

\* an acceptance test that wants the publication strictly before the date
AcceptedStrictlyBefore(table, date) == DateGT(date, table.publication_date)

\* if not table.publication_date.date() > date
Accepted(table, date) == ~DateGT(table.publication_date, date)

\* ------------------------------------------------------------------------
\* get_table
\* ------------------------------------------------------------------------
\* a resolver whose sequencer gets one step more than the default budget
GetTableGenOneMore(date, table_type, cache_dir) ==
    GenStart(date.year, calculate_number(date, table_type), table_type,
             DefaultGenNumber + 1, cache_dir)

\* urlsgen = gen_urls(pub_number=calculate_number(date, table_type),
\*                    year=date.year, table_type=table_type, cache_dir=cache_dir)
GetTableGen(date, table_type, cache_dir) ==
    GenStart(date.year, calculate_number(date, table_type), table_type,
             DefaultGenNumber, cache_dir)

\* What one pass of the loop body does with the location `loc`:
\*   fetched   "raised" (fetch_data raised), "absent" (it returned None) or "content"
\*   doc       "table" or "malformed" for content, "-" otherwise
\*   table     the parsed Table (None when there is none)
\*   closed    whether data.close() was reached
LoopBody(loc, st, net, io) ==
    LET f == fetch_data(loc.url, loc.cache_file_path, st, net, io)
        p == parse(f.value, loc.url)
    IN  IF f.raised
        THEN [fetched |-> "raised", doc |-> "-", table |-> None, handle |-> None,
              closed |-> FALSE, error |-> f.value, store |-> f.store,
              downloaded |-> f.downloaded]
        ELSE IF f.value = None
        THEN [fetched |-> "absent", doc |-> "-", table |-> None, handle |-> None,
              closed |-> FALSE, error |-> "", store |-> f.store,
              downloaded |-> f.downloaded]
        ELSE IF p.raised
        THEN [fetched |-> "content", doc |-> f.value.body.doc, table |-> None,
              handle |-> f.value, closed |-> FALSE, error |-> p.value,
              store |-> f.store, downloaded |-> f.downloaded]
        ELSE [fetched |-> "content", doc |-> f.value.body.doc, table |-> p.value,
              handle |-> f.value, closed |-> TRUE, error |-> "",
              store |-> f.store, downloaded |-> f.downloaded]

\* a loop that treats a failed fetch as the end of the search
AfterBodyAbortOnAbsent(b, date) ==
    IF b.error # "" THEN "raised"
    ELSE IF b.fetched = "absent" THEN "returned"
    ELSE IF Accepted(b.table, date) THEN "returned"
    ELSE "loop"

\* a loop that skips a candidate whose parse failed
AfterBodySkipParseError(b, date) ==
    IF b.error # "" /\ b.fetched = "content" THEN "loop"
    ELSE IF b.error # "" THEN "raised"
    ELSE IF b.fetched = "absent" THEN "loop"
    ELSE IF Accepted(b.table, date) THEN "returned"
    ELSE "loop"

\* where get_table stands after the pass: an error propagates, an accepted
\* table is returned, anything else goes on with the next candidate
AfterBody(b, date) ==
    IF b.error # "" THEN "raised"
    ELSE IF b.fetched = "absent" THEN "loop"
    ELSE IF Accepted(b.table, date) THEN "returned"
    ELSE "loop"

\* ------------------------------------------------------------------------
\* format_result and download_exchange_rate
\* ------------------------------------------------------------------------
\* d.strftime('%Y-%m-%d')
Strftime(d) ==
    RJust(Str(d.year), 4, "0") \o <<"-">> \o RJust(Str(d.month), 2, "0")
        \o <<"-">> \o RJust(Str(d.day), 2, "0")

format_result(nbp_table, currency, search_date) ==
    [search_date |-> Strftime(search_date),
     table_no    |-> nbp_table.no,
     pub_date    |-> Strftime(nbp_table.publication_date),
     url         |-> nbp_table.url,
     currency    |-> currency]

\* a test that takes any table that is present
RateAcceptsAnyTable(nbp_table, currency) == nbp_table # None

\* currency in nbp_table (models.Table): the table lists the currency code
TableContains(nbp_table, currency) == currency \in nbp_table.codes

\* if nbp_table and currency in nbp_table
RateAccepts(nbp_table, currency) ==
    nbp_table # None /\ TableContains(nbp_table, currency)

\* ------------------------------------------------------------------------
\* State
\* ------------------------------------------------------------------------
VARIABLES
    call,          \* the entry point being run and its arguments
    pc,            \* where the call stands
    urlsgen,       \* the frame of the gen_urls generator
    emitted,       \* what the generator has yielded so far, in order
    store,         \* the cache store (directories and files)
    attempts,      \* get_table: one entry per pass of its loop, in order
    fetch_log,     \* direct calls of fetch_data: one entry per call, in order
    open_handles,  \* content handles obtained from fetch_data and not closed
    result,        \* the value the call returned (None until then)
    error,         \* the error the call raised ("" when none)
    rate           \* download_exchange_rate: its loop position and return value

vars == <<call, pc, urlsgen, emitted, store, attempts, fetch_log, open_handles,
          result, error, rate>>

\* ------------------------------------------------------------------------
\* Bounds and inputs
\* ------------------------------------------------------------------------
MaxGen == 54       \* largest step budget given to a stand-alone sequencer
MaxStart == 2      \* largest starting publication number of a stand-alone sequencer
MaxFuture == 1     \* publications dated after the query date the feed serves per resolution

GenYears == {2012, 2013}

CacheDirs == {NoneStr, <<"/", "c">>}

QueryDates == {Date(2012, 6, 15), Date(2013, 1, 1)}

TableTypeInputs == {"a", "b", "A", "x"}

\* the currency codes a table of each type lists
FeedCodes(table_type) == IF table_type = A THEN {"USD", "EUR"} ELSE {"AMD", "EUR"}

FeedNo(table_type) == IF table_type = A THEN "A-table" ELSE "B-table"

\* the documents the feed can hold at a candidate of a query for `date`
Bodies(date, table_type) ==
    {MalformedBody} \cup
    {TableBody(FeedNo(table_type), d, FeedCodes(table_type)) :
        d \in {PrevDay(date), date, NextDay(date)}}

IsFuture(body, date) == body.doc = "table" /\ DateGT(body.publication_date, date)

NetOutcomes(date, table_type) ==
    {[kind |-> "200", body |-> b] : b \in Bodies(date, table_type)} \cup
    {[kind |-> k] : k \in {"non200", "URLError", "OtherError"}}

IoOutcomes == {"ok", "save_fails"}

\* the cache.save outcomes that can matter to a call: save is reached only
\* with a cache path and a 200 response
IoFor(cache_file_path, net) ==
    IF Truthy(cache_file_path) /\ net.kind = "200" THEN IoOutcomes ELSE {"ok"}

EmptyStore == [dirs |-> {}, files |-> <<>>]

Idle ==
    /\ urlsgen = None
    /\ emitted = <<>>
    /\ attempts = <<>>
    /\ fetch_log = <<>>
    /\ open_handles = {}
    /\ result = None
    /\ error = ""
    /\ rate = None

\* ------------------------------------------------------------------------
\* A stand-alone sequencer, consumed to exhaustion
\* ------------------------------------------------------------------------
InitGen ==
    /\ call \in [fn : {"gen_urls"}, year : GenYears, pub_number : 0..MaxStart,
                  table_type : {A, B}, gen_number : 0..MaxGen, cache_dir : CacheDirs]
    /\ pc = "gen"
    /\ store = EmptyStore
    /\ urlsgen = GenStart(call.year, call.pub_number, call.table_type,
                          call.gen_number, call.cache_dir)
    /\ emitted = <<>> /\ attempts = <<>> /\ fetch_log = <<>> /\ open_handles = {}
    /\ result = None /\ error = "" /\ rate = None

\* next(urlsgen) yields
GenNext ==
    /\ pc = "gen"
    /\ GenHasNext(urlsgen)
    /\ emitted' = Append(emitted, [year |-> GenRollover(urlsgen).year,
                                   pub_number |-> GenRollover(urlsgen).pub_number,
                                   loc |-> GenYield(urlsgen)])
    /\ urlsgen' = GenAdvance(urlsgen)
    /\ UNCHANGED <<call, pc, store, attempts, fetch_log, open_handles, result, error, rate>>

\* next(urlsgen) raises StopIteration
GenStop ==
    /\ pc = "gen"
    /\ ~GenHasNext(urlsgen)
    /\ pc' = "stopped"
    /\ UNCHANGED <<call, urlsgen, emitted, store, attempts, fetch_log, open_handles,
                   result, error, rate>>

NextGen == GenNext \/ GenStop

SpecGen == InitGen /\ [][NextGen]_vars

\* ------------------------------------------------------------------------
\* get_table(date, table_type, cache_dir)
\* ------------------------------------------------------------------------
\* the cache store before the call: empty, or holding the file of the first
\* candidate with any document
InitialStores(c) ==
    IF Truthy(c.cache_dir) /\ InTableTypes(c.table_type)
    THEN LET path == GenYield(GetTableGen(c.date, c.table_type, c.cache_dir)).cache_file_path
         IN  {EmptyStore} \cup
             {[dirs |-> {Dirname(path)}, files |-> [q \in {path} |-> b]] :
                 b \in Bodies(c.date, c.table_type)}
    ELSE {EmptyStore}

InitTable ==
    /\ call \in [fn : {"get_table"}, date : QueryDates, table_type : TableTypeInputs,
                  cache_dir : CacheDirs]
    /\ pc = "call"
    /\ store \in InitialStores(call)
    /\ Idle

\* publications dated after the query date that the network served in this call
FutureServed ==
    Cardinality({i \in 1..Len(attempts) :
        /\ attempts[i].downloaded
        /\ attempts[i].date # None
        /\ DateGT(attempts[i].date, call.date)})

AllowedNet ==
    LET more == FutureServed < MaxFuture
    IN  {n \in NetOutcomes(call.date, call.table_type) :
            (n.kind = "200" /\ IsFuture(n.body, call.date)) => more}

\* the call: calculate_number is evaluated, then the generator is created
GetTableCall ==
    /\ pc = "call"
    /\ IF CalculateRaises(call.table_type)
       THEN /\ pc' = "raised"
            /\ error' = "AssertionError"
            /\ UNCHANGED urlsgen
       ELSE /\ pc' = "loop"
            /\ urlsgen' = GetTableGen(call.date, call.table_type, call.cache_dir)
            /\ UNCHANGED error
    /\ attempts' = <<>>
    /\ result' = None
    /\ UNCHANGED <<call, emitted, store, fetch_log, open_handles, rate>>

\* one pass of `for url, cache_file_path in urlsgen`
GetTableIterate ==
    /\ pc = "loop"
    /\ GenHasNext(urlsgen)
    /\ LET loc == GenYield(urlsgen)
           gen == GenAdvance(urlsgen)
       IN  \E net \in AllowedNet : \E io \in IoFor(loc.cache_file_path, net) :
          LET b   == LoopBody(loc, store, net, io)
              to  == AfterBody(b, call.date)
          IN  /\ urlsgen' = gen
              /\ store' = b.store
              /\ attempts' = Append(attempts,
                    [url |-> loc.url, fetched |-> b.fetched, doc |-> b.doc,
                     date |-> IF b.table = None THEN None ELSE b.table.publication_date,
                     downloaded |-> b.downloaded])
              /\ open_handles' = IF b.handle # None /\ ~b.closed
                                 THEN open_handles \cup {b.handle}
                                 ELSE open_handles
              /\ pc' = to
              /\ error' = IF to = "raised" THEN b.error ELSE error
              /\ result' = IF to = "returned" THEN b.table ELSE result
    /\ UNCHANGED <<call, emitted, fetch_log, rate>>

\* the generator is exhausted: return None
GetTableExhausted ==
    /\ pc = "loop"
    /\ ~GenHasNext(urlsgen)
    /\ pc' = "returned"
    /\ result' = None
    /\ UNCHANGED <<call, urlsgen, emitted, store, attempts, fetch_log, open_handles,
                   error, rate>>

NextTable == GetTableCall \/ GetTableIterate \/ GetTableExhausted

SpecTable == InitTable /\ [][NextTable]_vars

\* ------------------------------------------------------------------------
\* fetch_data called directly, several times, on one cache store
\* ------------------------------------------------------------------------
MaxCalls == 2      \* direct fetch_data calls in one run

FetchDate == Date(2012, 6, 15)

\* the locations the calls are made with
FetchLocs ==
    {build_url(2012, n, A, dir) : n \in {4, 123}, dir \in CacheDirs}

FetchBodies == {MalformedBody, TableBody(FeedNo(A), FetchDate, FeedCodes(A))}

FetchNet ==
    {[kind |-> "200", body |-> b] : b \in FetchBodies} \cup
    {[kind |-> k] : k \in {"non200", "URLError", "OtherError"}}

FetchStores ==
    {EmptyStore} \cup
    {[dirs |-> {Dirname(loc.cache_file_path)},
      files |-> [q \in {loc.cache_file_path} |-> b]] :
        loc \in {l \in FetchLocs : Truthy(l.cache_file_path)}, b \in FetchBodies}

InitFetch ==
    /\ call = [fn |-> "fetch_data"]
    /\ pc = "fetch"
    /\ store \in FetchStores
    /\ Idle

\* one call fetch_data(url, cache_file_path)
FetchDataCall ==
    /\ pc = "fetch"
    /\ Len(fetch_log) < MaxCalls
    /\ \E loc \in FetchLocs, net \in FetchNet : \E io \in IoFor(loc.cache_file_path, net) :
          LET f == fetch_data(loc.url, loc.cache_file_path, store, net, io)
          IN  /\ store' = f.store
              /\ fetch_log' = Append(fetch_log,
                    [url |-> loc.url, cache_file_path |-> loc.cache_file_path,
                     downloaded |-> f.downloaded,
                     fetched |-> IF f.raised THEN "raised"
                                 ELSE IF f.value = None THEN "absent" ELSE "content",
                     handle |-> IF f.raised THEN None ELSE f.value])
              /\ open_handles' = IF ~f.raised /\ f.value # None
                                 THEN open_handles \cup {f.value}
                                 ELSE open_handles
              /\ pc' = IF f.raised THEN "raised" ELSE "fetch"
              /\ error' = IF f.raised THEN f.value ELSE error
    /\ UNCHANGED <<call, urlsgen, emitted, attempts, result, rate>>

NextFetch == FetchDataCall

SpecFetch == InitFetch /\ [][NextFetch]_vars

\* ------------------------------------------------------------------------
\* download_exchange_rate(date, currency), cache_dir left at its default
\* ------------------------------------------------------------------------
RateDates == {Date(2012, 6, 15), Date(2013, 1, 1)}

Currencies == {"USD", "AMD", "EUR", "XXX"}

InitRate ==
    /\ rate \in [date : RateDates, currency : Currencies, cache_dir : {NoneStr},
                  idx : {1}, calls : {<<>>}, value : {None}]
    /\ call = [fn |-> "download_exchange_rate"]
    /\ pc = "rate"
    /\ store = EmptyStore
    /\ urlsgen = None
    /\ emitted = <<>>
    /\ attempts = <<>>
    /\ fetch_log = <<>>
    /\ open_handles = {}
    /\ result = None
    /\ error = ""

\* for table_type in TABLE_TYPES: nbp_table = get_table(date, table_type, cache_dir)
RateNext ==
    /\ pc = "rate"
    /\ rate.idx <= Len(TABLE_TYPES)
    /\ call' = [fn |-> "get_table", date |-> rate.date,
                table_type |-> TABLE_TYPES[rate.idx], cache_dir |-> rate.cache_dir]
    /\ rate' = [rate EXCEPT !.calls = Append(@, TABLE_TYPES[rate.idx])]
    /\ pc' = "call"
    /\ UNCHANGED <<urlsgen, emitted, store, attempts, fetch_log, open_handles,
                   result, error>>

\* get_table returned: return the formatted result, or go on with the next type
RateCheck ==
    /\ pc = "returned"
    /\ IF RateAccepts(result, rate.currency)
       THEN /\ rate' = [rate EXCEPT !.value = format_result(result, rate.currency, rate.date)]
            /\ pc' = "rate_returned"
       ELSE /\ rate' = [rate EXCEPT !.idx = @ + 1]
            /\ pc' = "rate"
    /\ UNCHANGED <<call, urlsgen, emitted, store, attempts, fetch_log, open_handles,
                   result, error>>

\* the loop over TABLE_TYPES is over: return None
RateExhausted ==
    /\ pc = "rate"
    /\ rate.idx > Len(TABLE_TYPES)
    /\ pc' = "rate_returned"
    /\ UNCHANGED <<call, urlsgen, emitted, store, attempts, fetch_log, open_handles,
                   result, error, rate>>

\* a loop that drops the error of get_table and goes on with the next type
RateSwallowsError ==
    /\ pc = "raised"
    /\ rate' = [rate EXCEPT !.idx = @ + 1]
    /\ pc' = "rate"
    /\ error' = ""
    /\ UNCHANGED <<call, urlsgen, emitted, store, attempts, fetch_log, open_handles,
                   result>>

\* get_table raised: the error leaves download_exchange_rate
RatePropagate ==
    /\ pc = "raised"
    /\ pc' = "rate_raised"
    /\ UNCHANGED <<call, urlsgen, emitted, store, attempts, fetch_log, open_handles,
                   result, error, rate>>

NextRate ==
    \/ RateNext \/ RateCheck \/ RateExhausted \/ RatePropagate
    \/ GetTableCall \/ GetTableIterate \/ GetTableExhausted

SpecRate == InitRate /\ [][NextRate]_vars

\* ------------------------------------------------------------------------
\* build_url(year, pub_number, table_type, cache_dir) called once
\* ------------------------------------------------------------------------
BuildYears == {1912, 2012, 2013}

BuildNumbers == {0, 1, 4, 9, 10, 99, 100, 123, 234, 999, 1000, 1234, 12345}

\* cache_dir: None, '', '/c', '/c/'
BuildCacheDirs == {NoneStr, <<>>, <<"/", "c">>, <<"/", "c", "/">>}

BuildInputs ==
    [fn : {"build_url"}, year : BuildYears, pub_number : BuildNumbers,
     table_type : {A, B}, cache_dir : BuildCacheDirs]

InitBuild ==
    /\ call \in BuildInputs
    /\ pc = "build"
    /\ store = EmptyStore
    /\ Idle

\* the call returns (url, cache_file_path)
BuildUrlCall ==
    /\ pc = "build"
    /\ result' = build_url(call.year, call.pub_number, call.table_type, call.cache_dir)
    /\ pc' = "built"
    /\ UNCHANGED <<call, urlsgen, emitted, store, attempts, fetch_log, open_handles,
                   error, rate>>

NextBuild == BuildUrlCall

SpecBuild == InitBuild /\ [][NextBuild]_vars

\* ------------------------------------------------------------------------
\* Properties of the sequencer (SpecGen)
\* ------------------------------------------------------------------------

\* C5: a sequencer consumed to exhaustion with step budget gen_number = N has
\* yielded exactly N locations when it stops, and never more than N before,
\* whatever the start and however many year boundaries it crosses.
C5_ExactlyGenNumber ==
    /\ Len(emitted) <= call.gen_number
    /\ pc = "stopped" => Len(emitted) = call.gen_number

\* a stopped run that crossed two year boundaries, and the default budget
C5_Witness ==
    /\ pc = "stopped"
    /\ call.gen_number > DefaultGenNumber
    /\ Len(emitted) = call.gen_number
    /\ emitted[1].year - emitted[Len(emitted)].year = 2

\* C6: a step that starts with publication number 0 emits the location of
\* the previous year with the number calculate_number gives December 31 of
\* that year, for the same table type.
C6_RolloverRecomputes ==
    [][(pc = "gen" /\ urlsgen.pub_number = 0 /\ Len(emitted') = Len(emitted) + 1)
        => LET e == emitted'[Len(emitted')]
               n == calculate_number(Date(urlsgen.year - 1, 12, 31), urlsgen.table_type)
           IN  /\ e.year = urlsgen.year - 1
               /\ e.pub_number = n
               /\ e.loc = build_url(urlsgen.year - 1, n, urlsgen.table_type,
                                    urlsgen.cache_dir)]_vars

\* the sequencer started at (2013, 0, B) has emitted (2012, calculate_number(2012-12-31, B))
C6_Witness ==
    /\ call.year = 2013 /\ call.pub_number = 0 /\ call.table_type = B
    /\ Len(emitted) >= 1
    /\ emitted[1].year = 2012
    /\ emitted[1].pub_number = calculate_number(Date(2012, 12, 31), B)
    /\ emitted[1].pub_number = 52

\* C7: the emitted coordinates go strictly backward: within a year each
\* number is the previous one minus 1, the year changes by exactly 1 and
\* only right after number 1 was emitted (or at the start, from number 0),
\* and no coordinate is emitted twice.
C7_StrictlyBackward ==
    /\ \A i \in 1..(Len(emitted) - 1) :
          LET a == emitted[i]
              b == emitted[i + 1]
          IN  \/ b.year = a.year /\ b.pub_number = a.pub_number - 1
              \/ b.year = a.year - 1 /\ a.pub_number = 1
    /\ Len(emitted) >= 1 =>
          \/ emitted[1].year = call.year /\ emitted[1].pub_number = call.pub_number
          \/ emitted[1].year = call.year - 1 /\ call.pub_number = 0
    /\ \A i, j \in 1..Len(emitted) :
          i # j => /\ <<emitted[i].year, emitted[i].pub_number>>
                        # <<emitted[j].year, emitted[j].pub_number>>
                   /\ emitted[i].loc.url # emitted[j].loc.url

\* a run that emitted number 1 of a year and then went on into the year before
C7_Witness ==
    \E i \in 1..(Len(emitted) - 1) :
        /\ i > 1
        /\ emitted[i].pub_number = 1
        /\ emitted[i + 1].year = emitted[i].year - 1
        /\ emitted[i + 1].pub_number > 1

\* ------------------------------------------------------------------------
\* Properties of get_table (SpecTable)
\* ------------------------------------------------------------------------
\* the locations the sequencer of this call yields, in order
Candidates == GenLocations(GetTableGen(call.date, call.table_type, call.cache_dir))

\* attempt i fetched and parsed a publication dated on or before the query date
Acceptable(i) ==
    /\ attempts[i].date # None
    /\ ToOrdinal(attempts[i].date) <= ToOrdinal(call.date)

\* attempt i fetched and parsed a publication dated after the query date
DatedAfter(i) ==
    /\ attempts[i].date # None
    /\ ToOrdinal(attempts[i].date) > ToOrdinal(call.date)

\* C1: get_table never returns a table whose publication date is after the
\* queried date, whatever the fetches gave.
C1_NeverAfterQueryDate ==
    (pc = "returned" /\ result # None)
        => ToOrdinal(result.publication_date) <= ToOrdinal(call.date)

\* a table was returned after a publication dated after the query date was seen
C1_Witness ==
    /\ pc = "returned" /\ result # None
    /\ \E i \in 1..Len(attempts) : DatedAfter(i)
    /\ ToOrdinal(result.publication_date) < ToOrdinal(call.date)

\* C2: the attempts follow the sequencer's order; the first attempt that
\* fetched a publication dated on or before the query date (the date itself
\* included) ends the search, is the one returned, and no fetch follows it.
C2_FirstAcceptableReturned ==
    /\ LET cands == Candidates
       IN  \A i \in 1..Len(attempts) :
             /\ i <= Len(cands)
             /\ attempts[i].url = cands[i].url
    /\ \A i \in 1..Len(attempts) :
          /\ Acceptable(i) =>
                /\ i = Len(attempts)
                /\ pc = "returned"
                /\ result # None
                /\ result.url = attempts[i].url
                /\ result.publication_date = attempts[i].date
    /\ (pc = "returned" /\ result # None) =>
          /\ Len(attempts) >= 1
          /\ Acceptable(Len(attempts))

\* a table dated exactly the query date was returned from the third candidate
\* or later, behind a failed fetch and a publication dated after the date
C2_Witness ==
    /\ pc = "returned" /\ result # None
    /\ result.publication_date = call.date
    /\ Len(attempts) >= 3
    /\ \E i \in 1..Len(attempts) : attempts[i].fetched = "absent"
    /\ \E i \in 1..Len(attempts) : DatedAfter(i)

\* C3: a call that raises nothing makes at most 15 fetch attempts: the
\* budget left is 15 minus the attempts made, the loop ends when it is 0,
\* and the call returns None exactly when no attempt was acceptable, which
\* takes all 15 attempts.
C3_BudgetAndAbsent ==
    /\ Len(attempts) <= DefaultGenNumber
    /\ pc = "loop" => urlsgen.gen_number = DefaultGenNumber - Len(attempts)
    /\ pc = "returned" =>
          /\ (\A i \in 1..Len(attempts) : ~Acceptable(i)) <=> result = None
          /\ result = None => Len(attempts) = DefaultGenNumber

\* None was returned after 15 attempts, some absent and some dated after the date
C3_Witness ==
    /\ pc = "returned" /\ result = None
    /\ Len(attempts) = DefaultGenNumber
    /\ \E i \in 1..Len(attempts) : attempts[i].fetched = "absent"
    /\ \E i \in 1..Len(attempts) : DatedAfter(i)

\* C4: an absent fetch does not end the search: the pass leaves get_table in
\* its loop with the sequencer advanced, the attempt after an absent one is
\* the next candidate, and a return right after an absent fetch happens only
\* when the budget is used up.
C4_AbsentGoesOn ==
    /\ [](LET cands == Candidates
           IN  \A i \in 1..Len(attempts) :
                 attempts[i].fetched = "absent" =>
                   /\ i = Len(attempts) => pc # "raised"
                   /\ i < Len(attempts) => attempts[i + 1].url = cands[i + 1].url
                   /\ (i = Len(attempts) /\ pc = "returned") =>
                         (Len(attempts) = DefaultGenNumber /\ result = None))
    /\ [][(pc = "loop" /\ Len(attempts') = Len(attempts) + 1
            /\ attempts'[Len(attempts')].fetched = "absent")
           => (pc' = "loop" /\ urlsgen' = GenAdvance(urlsgen))]_vars

\* the last candidate of the budget was returned behind 14 failed fetches
C4_Witness ==
    /\ pc = "returned" /\ result # None
    /\ Len(attempts) = DefaultGenNumber
    /\ \A i \in 1..(Len(attempts) - 1) : attempts[i].fetched = "absent"

\* C9: a fetched candidate that does not parse ends the call with the parse
\* error: it is the last attempt, nothing is returned, no candidate follows.
C9_ParseErrorPropagates ==
    \A i \in 1..Len(attempts) :
        attempts[i].doc = "malformed" =>
            /\ i = Len(attempts)
            /\ pc = "raised"
            /\ error = "ParseError"
            /\ result = None

\* the second or a later candidate was malformed and the call raised
C9_Witness ==
    /\ pc = "raised" /\ error = "ParseError"
    /\ Len(attempts) >= 2
    /\ Len(attempts) < DefaultGenNumber
    /\ attempts[Len(attempts)].doc = "malformed"

\* ------------------------------------------------------------------------
\* Properties of fetch_data (SpecFetch)
\* ------------------------------------------------------------------------
\* C8: a call of fetch_data that finds its cache file in place does not call
\* download and returns the handle of that file, the store left as it was;
\* so after a call that retrieved and cached a URL, a second call with the
\* same url and cache path makes no network call.
C8_CacheHitSkipsDownload ==
    /\ [][Len(fetch_log') = Len(fetch_log) + 1 =>
            LET e == fetch_log'[Len(fetch_log')]
            IN  (Truthy(e.cache_file_path) /\ e.cache_file_path \in DOMAIN store.files)
                  => /\ ~e.downloaded
                     /\ e.fetched = "content"
                     /\ e.handle.src = "cache"
                     /\ e.handle.name = e.cache_file_path
                     /\ e.handle.body = store.files[e.cache_file_path]
                     /\ store'.files = store.files]_vars
    /\ [](\A i, j \in 1..Len(fetch_log) :
            (/\ i < j
             /\ fetch_log[i].url = fetch_log[j].url
             /\ fetch_log[i].cache_file_path = fetch_log[j].cache_file_path
             /\ Truthy(fetch_log[i].cache_file_path)
             /\ fetch_log[i].downloaded
             /\ fetch_log[i].fetched = "content")
            => ~fetch_log[j].downloaded /\ fetch_log[j].handle = fetch_log[i].handle)

\* two calls with the same url and cache path: the first retrieved and cached
\* the publication, the second returned it without a network call
C8_Witness ==
    /\ Len(fetch_log) = 2
    /\ fetch_log[1].url = fetch_log[2].url
    /\ fetch_log[1].cache_file_path = fetch_log[2].cache_file_path
    /\ Truthy(fetch_log[1].cache_file_path)
    /\ fetch_log[1].downloaded /\ fetch_log[1].fetched = "content"
    /\ ~fetch_log[2].downloaded /\ fetch_log[2].fetched = "content"

\* ------------------------------------------------------------------------
\* Properties of download_exchange_rate (SpecRate)
\* ------------------------------------------------------------------------
\* C10: the table types are resolved in the order A, B; B is resolved only
\* when the table got for A is absent or lacks the currency; the value
\* returned is the formatted table of the type resolved last, which is
\* present and lists the currency; None is returned only after both types
\* were resolved and the table got for B is absent or lacks the currency.
C10_FirstTypeWithCurrency ==
    /\ [](/\ \A i \in 1..Len(rate.calls) : i <= 2 /\ rate.calls[i] = <<"a", "b">>[i]
          /\ pc = "rate_returned" =>
                IF rate.value # None
                THEN /\ result # None
                     /\ rate.currency \in result.codes
                     /\ call.table_type = rate.calls[Len(rate.calls)]
                     /\ result.url = Candidates[Len(attempts)].url
                     /\ rate.value.url = result.url
                     /\ rate.value.table_no = result.no
                     /\ rate.value.pub_date = Strftime(result.publication_date)
                     /\ rate.value.search_date = Strftime(rate.date)
                     /\ rate.value.currency = rate.currency
                ELSE /\ rate.calls = <<"a", "b">>
                     /\ result = None \/ rate.currency \notin result.codes)
    /\ [][(Len(rate.calls') = Len(rate.calls) + 1 /\ Len(rate.calls) >= 1)
            => (result = None \/ rate.currency \notin result.codes)]_vars

\* the rate of a currency that only table B lists was returned from table B
C10_Witness ==
    /\ pc = "rate_returned"
    /\ rate.value # None
    /\ rate.calls = <<"a", "b">>
    /\ rate.currency = "AMD"
    /\ result.no = FeedNo(B)

\* ------------------------------------------------------------------------
\* Caller errors, handles and network use of get_table (SpecTable)
\* ------------------------------------------------------------------------
\* C11: a call of get_table whose table type is not 'a' or 'b' fails the
\* check of calculate_number and ends raised at once: no candidate is ever
\* generated or fetched, no network request is made, and the cache store is
\* never touched.
C11_UnknownTypeRaisesFirst ==
    call.table_type \notin {"a", "b"} =>
        /\ CalculateRaises(call.table_type)
        /\ pc \in {"call", "raised"}
        /\ pc = "raised" => error = "AssertionError"
        /\ urlsgen = None
        /\ attempts = <<>>
        /\ open_handles = {}
        /\ store = EmptyStore

\* a call with a cache directory and an unknown table type has raised
C11_Witness ==
    /\ pc = "raised"
    /\ call.table_type \in {"A", "x"}
    /\ Truthy(call.cache_dir)
    /\ error = "AssertionError"
    /\ attempts = <<>>

\* C12: once get_table has ended, by a return or by a propagated error, no
\* content handle it got from fetch_data is left open.
C12_NoHandleLeftOpen ==
    pc \in {"returned", "raised"} => open_handles = {}

\* ------------------------------------------------------------------------
\* Failures and the cache file in fetch_data (SpecFetch)
\* ------------------------------------------------------------------------
\* C13: no call of fetch_data raises: whatever the network does (a status
\* other than 200, a connection error, any other transport error) and
\* whatever the cache write does, the call returns content or absent.
C13_FetchNeverRaises ==
    /\ pc # "raised"
    /\ error = ""
    /\ \A i \in 1..Len(fetch_log) : fetch_log[i].fetched \in {"absent", "content"}

C15_OneGetPerUrl ==
    /\ [](/\ \A i, j \in 1..Len(attempts) :
                i # j => attempts[i].url # attempts[j].url
          /\ Cardinality({attempts[i].url : i \in {k \in 1..Len(attempts) :
                                                    attempts[k].downloaded}})
                = Cardinality({k \in 1..Len(attempts) : attempts[k].downloaded}))
    /\ [][(pc = "loop" /\ attempts' # attempts) =>
            /\ Len(attempts') = Len(attempts) + 1
            /\ SubSeq(attempts', 1, Len(attempts)) = attempts
            /\ \A i \in 1..Len(attempts) :
                  attempts[i].url # attempts'[Len(attempts')].url]_vars

\* a resolution that went on after two failed retrievals and was then served
C15_Witness ==
    /\ pc = "returned" /\ result # None
    /\ Len(attempts) = 3
    /\ \A i \in 1..2 : attempts[i].downloaded /\ attempts[i].fetched = "absent"
    /\ attempts[3].downloaded

\* ------------------------------------------------------------------------
\* Properties of build_url (SpecBuild)
\* ------------------------------------------------------------------------
\* the file name of a location: what follows its last "/"
FileName(path) == SubSeq(path, LastSlash(path, Len(path)) + 1, Len(path))

\* the number field of a file name <yy><t><number>.xml
NumberField(path) ==
    LET f == FileName(path) IN SubSeq(f, 4, Len(f) - 4)

\* the value of one decimal digit character (10 for any other character)
DigitValue(c) ==
    IF \E v \in 0..9 : DigitChar[v + 1] = c
    THEN CHOOSE v \in 0..9 : DigitChar[v + 1] = c
    ELSE 10

\* the number a string of decimal digits stands for (-1 when it is none)
RECURSIVE DecimalValue(_)
DecimalValue(s) ==
    IF Len(s) = 0 THEN 0
    ELSE LET head == DecimalValue(SubSeq(s, 1, Len(s) - 1))
             d    == DigitValue(s[Len(s)])
         IN  IF head < 0 \/ d > 9 THEN -1 ELSE 10 * head + d

\* C16: the number field of the URL built for publication number n reads
\* back as n, is 3 characters long for n < 1000 and as long as n's decimal
\* digits for n >= 1000 (4 gives 004, 123 gives 123, 1234 gives 1234), and
\* no other coordinate (year, number, table type) gives the same URL.
C16_PaddedNeverTruncated ==
    pc = "built" =>
        LET n     == call.pub_number
            field == NumberField(result.url)
        IN  /\ Len(field) >= 1
            /\ DecimalValue(field) = n
            /\ n < 1000 => Len(field) = 3
            /\ n >= 1000 => field = Str(n)
            /\ n = 4 => field = <<"0", "0", "4">>
            /\ n = 123 => field = <<"1", "2", "3">>
            /\ n = 1234 => field = <<"1", "2", "3", "4">>
            /\ \A c \in BuildInputs :
                  <<c.year, c.pub_number, c.table_type>>
                        # <<call.year, call.pub_number, call.table_type>>
                  => build_url(c.year, c.pub_number, c.table_type, c.cache_dir).url
                        # result.url

\* build_url(2012, 1234, 'a') has returned a URL ending in a1234.xml
C16_Witness ==
    /\ pc = "built"
    /\ call.year = 2012 /\ call.pub_number = 1234 /\ call.table_type = A
    /\ result.url = NBP_CURRENCY_TABLE_URL_PREFIX \o
            <<"2", "0", "1", "2", "/", "a", "/", "1", "2", "a",
              "1", "2", "3", "4", ".", "x", "m", "l">>

\* C17: the URL is the fixed prefix followed by <year>/<table_type>/<file>.xml;
\* with a cache directory the cache path is that directory, one separator
\* (none when the directory ends with one) and exactly that suffix; with
\* no cache directory (None, or the empty string) the cache path is None.
C17_CachePathMirrorsUrl ==
    pc = "built" =>
        LET suffix == Tail(result.url)
            dir    == call.cache_dir
            path   == result.cache_file_path
            file   == FileName(result.url)
        IN  /\ result.url = NBP_CURRENCY_TABLE_URL_PREFIX \o suffix
            /\ suffix = Str(call.year) \o <<"/", call.table_type, "/">> \o file
            /\ SubSeq(file, Len(file) - 3, Len(file)) = <<".", "x", "m", "l">>
            /\ IF Truthy(dir)
               THEN /\ SubSeq(path, 1, Len(dir)) = dir
                    /\ SubSeq(path, Len(path) - Len(suffix) + 1, Len(path)) = suffix
                    /\ Len(path) = Len(dir) + Len(suffix)
                                     + (IF dir[Len(dir)] = "/" THEN 0 ELSE 1)
                    /\ dir[Len(dir)] # "/" => path[Len(dir) + 1] = "/"
               ELSE path = NoneStr

\* build_url(2012, 4, 'a', cache_dir='/c') has returned /c/2012/a/12a004.xml
C17_Witness ==
    /\ pc = "built"
    /\ call.cache_dir = <<"/", "c">>
    /\ result.url = NBP_CURRENCY_TABLE_URL_PREFIX \o
            <<"2", "0", "1", "2", "/", "a", "/", "1", "2", "a",
              "0", "0", "4", ".", "x", "m", "l">>
    /\ result.cache_file_path =
            <<"/", "c", "/", "2", "0", "1", "2", "/", "a", "/", "1", "2", "a",
              "0", "0", "4", ".", "x", "m", "l">>

\* ------------------------------------------------------------------------
\* The sentinel number of the sequencer (SpecGen)
\* ------------------------------------------------------------------------
\* C18: started with a publication number >= 0, the sequencer emits only
\* publication numbers >= 1 (the number in the emitted URL included), its
\* cursor is never negative, and December 31 of the years it rolls over to
\* has a publication number >= 1.
C18_SentinelNeverEmitted ==
    /\ urlsgen.pub_number >= 0
    /\ \A i \in 1..Len(emitted) : emitted[i].pub_number >= 1
    /\ Len(emitted) >= 1 =>
          LET e == emitted[Len(emitted)]
          IN  DecimalValue(NumberField(e.loc.url)) = e.pub_number
    /\ calculate_number(Date(urlsgen.year - 1, 12, 31), urlsgen.table_type) >= 1

\* number 1 was just emitted and the cursor stands at the sentinel 0, after
\* a start from 0 that rolled over to the year before
C18_Witness ==
    /\ pc = "gen"
    /\ call.pub_number = 0
    /\ Len(emitted) >= 2
    /\ emitted[1].year = call.year - 1
    /\ emitted[Len(emitted)].pub_number = 1
    /\ urlsgen.pub_number = 0
    /\ GenHasNext(urlsgen)

\* ------------------------------------------------------------------------
\* Errors in download_exchange_rate (SpecRate)
\* ------------------------------------------------------------------------
\* C19: get_table for B is called only when get_table for A has returned,
\* with no error, None or a table that lacks the currency; an error raised
\* while A is resolved leaves download_exchange_rate as it is, nothing is
\* returned, and B is never resolved.
C19_ErrorInAStopsBeforeB ==
    /\ [](/\ (error # "" /\ call.fn = "get_table" /\ call.table_type = A)
                => /\ rate.calls = <<A>>
                   /\ pc \in {"raised", "rate_raised"}
                   /\ rate.value = None
          /\ pc = "rate_raised" => (error # "" /\ rate.value = None)
          /\ Len(rate.calls) = 2 => (error = "" \/ call.table_type = B))
    /\ [][pc = "raised" => (pc' = "rate_raised" /\ error' = error /\ rate' = rate)]_vars
    /\ [][pc = "rate_raised" => UNCHANGED vars]_vars
    /\ [][(rate.calls = <<A>> /\ rate.calls' # rate.calls) =>
            /\ rate.calls' = <<A, B>>
            /\ pc = "rate"
            /\ error = ""
            /\ call.table_type = A
            /\ result = None \/ rate.currency \notin result.codes]_vars

\* the parse error of a table A document has left download_exchange_rate
\* for a currency that only table B lists, and B was never resolved
C19_Witness ==
    /\ pc = "rate_raised"
    /\ error = "ParseError"
    /\ rate.currency = "AMD"
    /\ rate.calls = <<A>>
    /\ rate.value = None
    /\ Len(attempts) >= 2

====
